---- MODULE Spec2Model ----
(***************************************************************************)
(* Model of download_and_push.py: a mapping file of "<url> <filename>"     *)
(* lines is loaded (read_url_mapping), every URL is downloaded to its      *)
(* file (download_file), and if at least one download succeeded the        *)
(* working tree is staged, committed and pushed (git_push).                *)
(*                                                                         *)
(* Text is a sequence of atoms.  An atom is one character (" ", "\n", "#", *)
(* "{", "}", "/") or a run of characters none of which is whitespace, a    *)
(* brace, "#" or "/" ("one_week_ago", "2024-03-03", "x", "a", "b", "d").   *)
(***************************************************************************)
EXTENDS Integers, Sequences, FiniteSets, TLC

\* ------------------------------------------------------------------------
\* Bounds of the model
\* ------------------------------------------------------------------------
MaxLines == 3
MaxArgc == 3

\* ------------------------------------------------------------------------
\* Text helpers (str.strip, str.startswith, str.split(None, 1), re.sub)
\* ------------------------------------------------------------------------
Whitespace == {" ", "\n"}

Drop(s, n) == SubSeq(s, n + 1, Len(s))

RECURSIVE LStrip(_)
LStrip(s) ==
    IF s # <<>> /\ Head(s) \in Whitespace THEN LStrip(Tail(s)) ELSE s

RECURSIVE RStrip(_)
RStrip(s) ==
    IF s # <<>> /\ s[Len(s)] \in Whitespace
    THEN RStrip(SubSeq(s, 1, Len(s) - 1))
    ELSE s

\* line.strip()
Strip(s) == RStrip(LStrip(s))

\* line.startswith('#')
StartsWithHash(s) == s # <<>> /\ Head(s) = "#"

\* length of the leading run of non-whitespace atoms
RECURSIVE FieldLen(_)
FieldLen(s) ==
    IF s = <<>> \/ Head(s) \in Whitespace THEN 0 ELSE 1 + FieldLen(Tail(s))

\* line.split(None, 1): at most ONE split, on the first run of whitespace;
\* the remainder keeps its inner whitespace.
SplitOnce(s) ==
    LET body  == LStrip(s)
        n     == FieldLen(body)
        first == SubSeq(body, 1, n)
        rest  == LStrip(Drop(body, n))
    IN  IF body = <<>> THEN <<>>
        ELSE IF rest = <<>> THEN <<first>>
        ELSE <<first, rest>>

\* the date of seven days ago as "%Y-%m-%d"; the clock is the environment's
\* and is held fixed for the run
one_week_ago == <<"2024-03-03">>

\* FUNCTION_MAPPING: placeholder name -> text it generates
FUNCTION_MAPPING == [name \in {<<"one_week_ago">>} |-> one_week_ago]

\* index of the first "}" at or after position i, 0 if there is none
RECURSIVE FirstClose(_, _)
FirstClose(s, i) ==
    IF i > Len(s) THEN 0
    ELSE IF s[i] = "}" THEN i
    ELSE FirstClose(s, i + 1)

\* replacer(match): the generated text for a registered name, else the
\* matched text unchanged
replacer(whole, func_name) ==
    IF func_name \in DOMAIN FUNCTION_MAPPING
    THEN FUNCTION_MAPPING[func_name]
    ELSE whole

\* re.sub(r'\{([^}]+)\}', replacer, url): leftmost, non-overlapping matches.
\* A match starts at a "{" whose first following "}" is at least two
\* positions later ([^}]+ needs one atom, and may itself contain "{").
RECURSIVE replace_url_placeholders(_)
replace_url_placeholders(url) ==
    IF url = <<>> THEN <<>>
    ELSE LET j == FirstClose(url, 2)
         IN  IF Head(url) = "{" /\ j > 2
             THEN replacer(SubSeq(url, 1, j), SubSeq(url, 2, j - 1))
                    \o replace_url_placeholders(Drop(url, j))
             ELSE <<Head(url)>> \o replace_url_placeholders(Tail(url))

\* ------------------------------------------------------------------------
\* dict with insertion order: a sequence of <<key, value>> pairs, no key
\* twice.  d[key] = value keeps the position of a key already present.
\* ------------------------------------------------------------------------
Keys(d) == {d[i][1] : i \in 1..Len(d)}

DictSet(d, key, value) ==
    IF key \in Keys(d)
    THEN [i \in 1..Len(d) |-> IF d[i][1] = key THEN <<key, value>> ELSE d[i]]
    ELSE Append(d, <<key, value>>)

\* ------------------------------------------------------------------------
\* Inputs: the lines a mapping file is made of, destinations, directories
\* ------------------------------------------------------------------------
UrlWeekAgo == <<"{", "one_week_ago", "}">>
UrlDate == <<"2024-03-03">>
UrlUnknown == <<"{", "x", "}">>
DestA == <<"a">>
DestB == <<"d", "/", "b">>

Lines ==
    { <<"\n">>,                                           \* blank
      <<" ", "#", " ", "x", "\n">>,                        \* comment
      <<"x", "\n">>,                                       \* one field
      UrlWeekAgo \o <<" ">> \o DestA \o <<"\n">>,          \* placeholder
      <<" ">> \o UrlDate \o <<" ">> \o DestB \o <<"\n">>,   \* same URL once expanded
      UrlUnknown \o <<" ", " ">> \o DestA \o <<" ", "\n">>, \* unknown placeholder
      UrlDate \o <<" ">> \o DestA \o <<" ">> \o DestA \o <<"\n">> }  \* three fields

RECURSIVE SeqsUpTo(_, _)
SeqsUpTo(S, n) ==
    IF n = 0 THEN {<<>>}
    ELSE LET shorter == SeqsUpTo(S, n - 1)
         IN  shorter \cup {Append(q, x) : q \in shorter, x \in S}

Files == SeqsUpTo(Lines, MaxLines)

\* every destination a line of the pool can yield
DestNames ==
    {SplitOnce(Strip(l))[2] :
        l \in {m \in Lines : /\ ~StartsWithHash(Strip(m))
                              /\ Len(SplitOnce(Strip(m))) = 2}}

\* index of the last "/" of a path, 0 if there is none
RECURSIVE LastSlash(_)
LastSlash(path) ==
    IF path = <<>> THEN 0
    ELSE IF path[Len(path)] = "/" THEN Len(path)
    ELSE LastSlash(SubSeq(path, 1, Len(path) - 1))

\* os.path.dirname of a relative path
dirname(path) == SubSeq(path, 1, LastSlash(path) - 1)

\* open(filename, 'wb') needs the parent directory; the working directory
\* itself (dirname "") always exists
ParentExists(dirset, filename) ==
    LastSlash(filename) = 0 \/ dirname(filename) \in dirset

Body == "body"

\* ------------------------------------------------------------------------
\* State
\* ------------------------------------------------------------------------
VARIABLES
    argc,           \* len(sys.argv)
    file_exists,    \* whether the mapping file can be found
    file,           \* the lines of the mapping file
    pc,             \* position of main
    line_num,       \* lines of the mapping file consumed so far
    url_mapping,    \* the dict built by read_url_mapping, in insertion order
    warnings,       \* line numbers of the "Invalid format" warnings printed
    idx,            \* entries of url_mapping the download loop has consumed
    success_count,  \* main's success counter
    attempts,       \* log of the download_file calls
    fs,             \* contents of each destination path
    dirs,           \* the directories that exist
    gitCalls,       \* log of the git child processes run
    pushed,         \* what git_push returned: "none" until it returns
    diagnostic,     \* the fatal diagnostic main or the loader printed
    report,         \* <<success_count, total_count>> once printed
    exit_status     \* the process's exit status, meaningful once pc = "exit"

vars == <<argc, file_exists, file, pc, line_num, url_mapping, warnings, idx,
          success_count, attempts, fs, dirs, gitCalls, pushed, diagnostic,
          report, exit_status>>

inputVars == <<argc, file_exists, file, dirs>>
loaderVars == <<line_num, url_mapping, warnings>>
loopVars == <<idx, success_count, attempts, fs>>
gitVars == <<gitCalls, pushed>>

Init ==
    /\ argc \in 1..MaxArgc
    /\ file_exists \in BOOLEAN
    /\ file \in (IF file_exists THEN Files ELSE {<<>>})
    /\ dirs \in {{}, {dirname(DestB)}}
    /\ \E present \in BOOLEAN :
          fs = [f \in DestNames |->
                  IF present /\ ParentExists(dirs, f) THEN "old" ELSE "absent"]
    /\ pc = "start"
    /\ line_num = 0
    /\ url_mapping = <<>>
    /\ warnings = <<>>
    /\ idx = 0
    /\ success_count = 0
    /\ attempts = <<>>
    /\ gitCalls = <<>>
    /\ pushed = "none"
    /\ diagnostic = "none"
    /\ report = <<>>
    /\ exit_status = 0

\* sys.exit(code), and the interpreter's exit on an uncaught exception
Exit(code) ==
    /\ pc' = "exit"
    /\ exit_status' = code

\* ------------------------------------------------------------------------
\* main, up to the download loop
\* ------------------------------------------------------------------------
\* len(sys.argv) != 2: usage, sys.exit(1)
Main_Usage ==
    /\ pc = "start"
    /\ argc # 2
    /\ diagnostic' = "usage"
    /\ Exit(1)
    /\ UNCHANGED <<inputVars, loaderVars, loopVars, gitVars, report>>

\* read_url_mapping: open() raises FileNotFoundError
Read_NotFound ==
    /\ pc = "start"
    /\ argc = 2
    /\ ~file_exists
    /\ diagnostic' = "not_found"
    /\ Exit(1)
    /\ UNCHANGED <<inputVars, loaderVars, loopVars, gitVars, report>>

\* read_url_mapping: the file opens
Read_Open ==
    /\ pc = "start"
    /\ argc = 2
    /\ file_exists
    /\ pc' = "read"
    /\ UNCHANGED <<inputVars, loaderVars, loopVars, gitVars, diagnostic,
                   report, exit_status>>

\* read_url_mapping: any other exception while opening or reading
\* (permission, decoding, I/O), before or between lines
Read_Error ==
    /\ \/ pc = "start" /\ argc = 2 /\ file_exists
       \/ pc = "read" /\ line_num > 0
    /\ diagnostic' = "read_error"
    /\ Exit(1)
    /\ UNCHANGED <<inputVars, loaderVars, loopVars, gitVars, report>>

\* the body of the for loop of read_url_mapping, for one line
ParseLine(mapping, warned, num, raw) ==
    LET line  == Strip(raw)
        parts == SplitOnce(line)
    IN  IF line = <<>> \/ StartsWithHash(line)
        THEN [mapping |-> mapping, warned |-> warned]
        ELSE IF Len(parts) # 2
        THEN [mapping |-> mapping, warned |-> Append(warned, num)]
        ELSE [mapping |-> DictSet(mapping,
                                  replace_url_placeholders(parts[1]), parts[2]),
              warned |-> warned]

Read_Line ==
    /\ pc = "read"
    /\ line_num < Len(file)
    /\ LET r == ParseLine(url_mapping, warnings, line_num + 1,
                          file[line_num + 1])
       IN  /\ url_mapping' = r.mapping
           /\ warnings' = r.warned
    /\ line_num' = line_num + 1
    /\ UNCHANGED <<inputVars, pc, loopVars, gitVars, diagnostic, report,
                   exit_status>>

\* end of file: read_url_mapping returns; main exits 1 on an empty mapping
Read_Return ==
    /\ pc = "read"
    /\ line_num = Len(file)
    /\ IF url_mapping = <<>>
       THEN diagnostic' = "no_mappings" /\ Exit(1)
       ELSE pc' = "loop" /\ UNCHANGED <<diagnostic, exit_status>>
    /\ UNCHANGED <<inputVars, loaderVars, loopVars, gitVars, report>>

\* ------------------------------------------------------------------------
\* download_file and the download loop
\* ------------------------------------------------------------------------
\* What urlopen(url) / response.read() can do: return the body, raise
\* HTTPError, raise URLError, or raise anything else (ValueError for a URL
\* without a scheme, IncompleteRead or a connection reset while reading).
GetOutcomes == {"ok", "HTTPError", "URLError", "other"}

\* What open(filename, 'wb') / f.write(content) can do where the parent
\* directory exists: succeed, fail to open (OSError), or open (truncating
\* the file) and then fail to write.
WriteOutcomes == {"ok", "open_fails", "write_fails"}

\* download_file with the destination opened (and so truncated) before the
\* GET instead of after the body was read
download_file_OpenFirst(fsys, dirset, filename, get, wr) ==
    IF ~ParentExists(dirset, filename) \/ wr = "open_fails"
    THEN [fs |-> fsys, ret |-> "raise"]
    ELSE IF get = "HTTPError" \/ get = "URLError"
    THEN [fs |-> [fsys EXCEPT ![filename] = ""], ret |-> "False"]
    ELSE IF get # "ok" \/ wr = "write_fails"
    THEN [fs |-> [fsys EXCEPT ![filename] = ""], ret |-> "raise"]
    ELSE [fs |-> [fsys EXCEPT ![filename] = Body], ret |-> "True"]

\* download_file(url, filename) on file system fsys: the file system it
\* leaves and what it does: return True, return False, or raise.
download_file(fsys, dirset, filename, get, wr) ==
    IF get = "HTTPError" \/ get = "URLError"
    THEN [fs |-> fsys, ret |-> "False"]
    ELSE IF get # "ok"
    THEN [fs |-> fsys, ret |-> "raise"]
    ELSE IF ~ParentExists(dirset, filename) \/ wr = "open_fails"
    THEN [fs |-> fsys, ret |-> "raise"]
    ELSE IF wr = "write_fails"
    THEN [fs |-> [fsys EXCEPT ![filename] = ""], ret |-> "raise"]
    ELSE [fs |-> [fsys EXCEPT ![filename] = Body], ret |-> "True"]

\* one iteration of "for url, filename in url_mapping.items()"; an exception
\* download_file lets through is uncaught in main: traceback, exit status 1
Main_Download ==
    /\ pc = "loop"
    /\ idx < Len(url_mapping)
    /\ \E get \in GetOutcomes, wr \in WriteOutcomes :
         LET url      == url_mapping[idx + 1][1]
             filename == url_mapping[idx + 1][2]
             r        == download_file(fs, dirs, filename, get, wr)
         IN  /\ fs' = r.fs
             /\ attempts' = Append(attempts,
                    [url |-> url, filename |-> filename, get |-> get,
                     wr |-> wr, parent |-> ParentExists(dirs, filename),
                     before |-> fs, ret |-> r.ret])
             /\ IF r.ret = "raise"
                THEN /\ Exit(1)
                     /\ UNCHANGED <<idx, success_count>>
                ELSE /\ idx' = idx + 1
                     /\ success_count' =
                            IF r.ret = "True" THEN success_count + 1
                            ELSE success_count
                     /\ UNCHANGED <<pc, exit_status>>
    /\ UNCHANGED <<inputVars, loaderVars, gitVars, diagnostic, report>>

\* after the loop: the "Download complete" line, then git_push is called or
\* skipped
Main_Report ==
    /\ pc = "loop"
    /\ idx = Len(url_mapping)
    /\ report' = <<success_count, Len(url_mapping)>>
    /\ IF success_count > 0
       THEN pc' = "git_add" /\ UNCHANGED exit_status
       ELSE Exit(0)
    /\ UNCHANGED <<inputVars, loaderVars, loopVars, gitVars, diagnostic>>

\* ------------------------------------------------------------------------
\* git_push and the end of main
\* ------------------------------------------------------------------------
\* what `git status --porcelain` can print
StatusOutputs == {<<>>, <<"\n">>, <<" ", "M", " ", "a", "\n">>}

\* What subprocess.run can do: the child runs and exits with a return code
\* (with its captured output), or it cannot be started (OSError).
ProcOutcomes(outputs) ==
    [started : {TRUE}, returncode : {0, 1}, stdout : outputs]
      \cup {[started |-> FALSE, returncode |-> 1, stdout |-> <<>>]}

\* subprocess.run with check=True left out: a non-zero return code raises
\* nothing
RunRaises_Unchecked(check, out) == ~out.started

\* subprocess.run(..., check=check) raises CalledProcessError on a non-zero
\* return code only when check is set; it raises OSError when the child
\* cannot be started
RunRaises(check, out) ==
    ~out.started \/ (check /\ out.returncode # 0)

\* the test on the status output inverted
NothingToCommit_Inverted(out) == Strip(out.stdout) # <<>>

\* "if not result.stdout.strip()"
NothingToCommit(out) == Strip(out.stdout) = <<>>

\* main ignoring what git_push returned
ExitAfterPush_Ignored(result) == 0

\* main after git_push returned: sys.exit(1) on False, fall off the end on True
ExitAfterPush(result) == IF result THEN 0 ELSE 1

GitCall(cmd, out) ==
    gitCalls' = Append(gitCalls, [cmd |-> cmd, out |-> out])

\* git_push returns; main prints the outcome and the process ends
GitReturn(result) ==
    /\ pushed' = (IF result THEN "True" ELSE "False")
    /\ Exit(ExitAfterPush(result))

\* subprocess.run(['git', 'add', '.'], check=True)
Git_Add ==
    /\ pc = "git_add"
    /\ \E out \in ProcOutcomes({<<>>}) :
         /\ GitCall("add", out)
         /\ IF RunRaises(TRUE, out)
            THEN GitReturn(FALSE)
            ELSE pc' = "git_status" /\ UNCHANGED <<pushed, exit_status>>
    /\ UNCHANGED <<inputVars, loaderVars, loopVars, diagnostic, report>>

\* subprocess.run(['git', 'status', '--porcelain'], capture_output=True,
\* text=True): no check, the return code is not looked at
Git_Status ==
    /\ pc = "git_status"
    /\ \E out \in ProcOutcomes(StatusOutputs) :
         /\ GitCall("status", out)
         /\ IF RunRaises(FALSE, out)
            THEN GitReturn(FALSE)
            ELSE IF NothingToCommit(out)
            THEN GitReturn(TRUE)
            ELSE pc' = "git_commit" /\ UNCHANGED <<pushed, exit_status>>
    /\ UNCHANGED <<inputVars, loaderVars, loopVars, diagnostic, report>>

\* subprocess.run(['git', 'commit', '-m', commit_msg], check=True)
Git_Commit ==
    /\ pc = "git_commit"
    /\ \E out \in ProcOutcomes({<<>>}) :
         /\ GitCall("commit", out)
         /\ IF RunRaises(TRUE, out)
            THEN GitReturn(FALSE)
            ELSE pc' = "git_push" /\ UNCHANGED <<pushed, exit_status>>
    /\ UNCHANGED <<inputVars, loaderVars, loopVars, diagnostic, report>>

\* subprocess.run(['git', 'push'], check=True)
Git_Push ==
    /\ pc = "git_push"
    /\ \E out \in ProcOutcomes({<<>>}) :
         /\ GitCall("push", out)
         /\ IF RunRaises(TRUE, out)
            THEN GitReturn(FALSE)
            ELSE GitReturn(TRUE)
    /\ UNCHANGED <<inputVars, loaderVars, loopVars, diagnostic, report>>

Next ==
    \/ Main_Usage
    \/ Read_NotFound
    \/ Read_Open
    \/ Read_Error
    \/ Read_Line
    \/ Read_Return
    \/ Main_Download
    \/ Main_Report
    \/ Git_Add
    \/ Git_Status
    \/ Git_Commit
    \/ Git_Push

Spec == Init /\ [][Next]_vars

\* ------------------------------------------------------------------------
\* Vocabulary of the properties
\* ------------------------------------------------------------------------
\* the whitespace-delimited fields of a line, all of them
RECURSIVE AllFields(_)
AllFields(s) ==
    LET body == LStrip(s)
        n    == FieldLen(body)
    IN  IF body = <<>> THEN <<>>
        ELSE <<SubSeq(body, 1, n)>> \o AllFields(Drop(body, n))

IsBlank(raw) == \A i \in 1..Len(raw) : raw[i] \in Whitespace

IsComment(raw) == ~IsBlank(raw) /\ Head(LStrip(raw)) = "#"

\* a line that is not blank, not a comment, and has exactly two fields
WellFormed(raw) ==
    ~IsBlank(raw) /\ ~IsComment(raw) /\ Len(AllFields(raw)) = 2

\* a line that is not blank, not a comment, and has 1 or 3+ fields
Malformed(raw) ==
    ~IsBlank(raw) /\ ~IsComment(raw) /\ Len(AllFields(raw)) # 2

LoaderReturned == pc \notin {"start", "read"} /\ diagnostic = "none"

LoopEntered == LoaderReturned

Succeeded(call) == call.out.started /\ call.out.returncode = 0

GetFailed(a) == a.get # "ok"

\* ------------------------------------------------------------------------
\* C1
\* ------------------------------------------------------------------------
\* C1: a failure of download_file for one entry, whatever its kind, never
\* aborts the batch: the loop moves past every entry that did not succeed,
\* and a run that entered the loop ends only after every entry of the
\* mapping was attempted.
C1_FailureNeverAbortsBatch ==
    /\ \A i \in 1..Len(attempts) : attempts[i].ret # "True" => idx >= i
    /\ (pc = "exit" /\ LoopEntered) => Len(attempts) = Len(url_mapping)

\* ------------------------------------------------------------------------
\* C2
\* ------------------------------------------------------------------------
\* C2: reading a line that is not blank, not a comment and has 1 or 3+
\* whitespace-delimited fields adds no entry to the mapping, prints a
\* warning with that line's 1-based number, and loading goes on.
C2_MalformedLineSkippedWithWarning ==
    [][(pc = "read" /\ line_num' = line_num + 1 /\ Malformed(file[line_num']))
          => /\ url_mapping' = url_mapping
             /\ warnings' = Append(warnings, line_num')
             /\ pc' = "read"]_vars

\* ------------------------------------------------------------------------
\* C3
\* ------------------------------------------------------------------------
AnySucceeded == \E i \in 1..Len(attempts) : attempts[i].ret = "True"

\* C3: in a finished run that entered the download loop, git was invoked
\* iff at least one download succeeded; when every entry failed the run
\* printed 0/N, ran no git command and exited 0.
C3_PublishIffSomeSuccess ==
    (pc = "exit" /\ LoopEntered) =>
        /\ (gitCalls # <<>>) <=> AnySucceeded
        /\ ~AnySucceeded =>
              /\ report = <<0, Len(url_mapping)>>
              /\ gitCalls = <<>>
              /\ exit_status = 0

\* ------------------------------------------------------------------------
\* C4
\* ------------------------------------------------------------------------
\* wrong argument count, mapping file missing or unreadable, or a mapping
\* file with no well-formed line (empty, or only comments, blank lines and
\* lines of 1 or 3+ fields)
ConfigError ==
    \/ argc # 2
    \/ ~file_exists
    \/ diagnostic = "read_error"
    \/ \A i \in 1..Len(file) : ~WellFormed(file[i])

\* C4: under a configuration error no GET, no write to a destination and
\* no git command is ever performed, and the process ends with status 1.
C4_ConfigErrorExitsBeforeAnyWork ==
    ConfigError =>
        /\ attempts = <<>>
        /\ gitCalls = <<>>
        /\ pc = "exit" => exit_status = 1

\* ------------------------------------------------------------------------
\* C7
\* ------------------------------------------------------------------------
WellFormedLines == {i \in 1..Len(file) : WellFormed(file[i])}

LineKey(i) == replace_url_placeholders(AllFields(file[i])[1])

LineDest(i) == AllFields(file[i])[2]

\* the last well-formed line whose expanded URL is key
LastLineFor(key) ==
    CHOOSE i \in WellFormedLines :
        /\ LineKey(i) = key
        /\ \A j \in WellFormedLines : LineKey(j) = key => j <= i

\* C7: the mapping read_url_mapping returns has exactly the expanded URLs
\* of the well-formed lines as keys, each once, each with the destination
\* of the last well-formed line that expands to it.
C7_MappingIsLastWriteWinsOverWellFormedLines ==
    LoaderReturned =>
        /\ Keys(url_mapping) = {LineKey(i) : i \in WellFormedLines}
        /\ Cardinality(Keys(url_mapping)) = Len(url_mapping)
        /\ \A k \in 1..Len(url_mapping) :
              url_mapping[k][1] \in {LineKey(i) : i \in WellFormedLines}
                 => url_mapping[k][2] = LineDest(LastLineFor(url_mapping[k][1]))

\* ------------------------------------------------------------------------
\* C8
\* ------------------------------------------------------------------------
\* C8: a download whose GET succeeded and whose write met no other error
\* is written and counted as a success even when the destination's parent
\* directory did not exist beforehand.
C8_ParentDirectoryCreated ==
    \A i \in 1..Len(attempts) :
        (attempts[i].get = "ok" /\ attempts[i].wr = "ok" /\ ~attempts[i].parent)
            => attempts[i].ret = "True"

\* ------------------------------------------------------------------------
\* C5
\* ------------------------------------------------------------------------
\* a git add, commit or push that exited non-zero, or any git child that
\* could not be run at all
PublishStepFailed ==
    \E i \in 1..Len(gitCalls) :
        \/ gitCalls[i].cmd \in {"add", "commit", "push"} /\ ~Succeeded(gitCalls[i])
        \/ ~gitCalls[i].out.started

\* C5: once publish was invoked and the run has ended: a failure at
\* staging, committing or pushing made git_push return False, a False from
\* git_push ends the process with a non-zero status, and a True ends it
\* with status 0.
C5_PublishFailureIsNonZeroExit ==
    (pc = "exit" /\ gitCalls # <<>>) =>
        /\ pushed \in {"True", "False"}
        /\ PublishStepFailed => pushed = "False"
        /\ pushed = "False" => exit_status # 0
        /\ pushed = "True" => exit_status = 0

C5_Witness ==
    /\ pc = "exit"
    /\ Len(gitCalls) = 4
    /\ gitCalls[4].cmd = "push"
    /\ gitCalls[4].out.started
    /\ gitCalls[4].out.returncode # 0
    /\ pushed = "False"
    /\ exit_status = 1

\* ------------------------------------------------------------------------
\* C6
\* ------------------------------------------------------------------------
\* C6: when the status query ran and printed nothing, it is the last git
\* command of the run (no commit, no push), git_push returned True and the
\* process ended with status 0.
C6_CleanTreeIsSuccessWithoutCommit ==
    \A i \in 1..Len(gitCalls) :
        (gitCalls[i].cmd = "status" /\ gitCalls[i].out.started
            /\ gitCalls[i].out.stdout = <<>>)
        => /\ Len(gitCalls) = i
           /\ pushed = "True"
           /\ pc = "exit"
           /\ exit_status = 0

C6_Witness ==
    /\ pc = "exit"
    /\ Len(gitCalls) = 2
    /\ Succeeded(gitCalls[1])
    /\ gitCalls[2].cmd = "status"
    /\ gitCalls[2].out.started
    /\ gitCalls[2].out.stdout = <<>>
    /\ pushed = "True"

\* ------------------------------------------------------------------------
\* C9
\* ------------------------------------------------------------------------
GitOrder == <<"add", "status", "commit", "push">>

\* C9: the git commands of a run are a prefix of add, status, commit, push
\* (so each at most once, in that order); status is run only after add
\* succeeded, commit only after add succeeded and status ran and reported
\* pending changes, push only after commit succeeded.
C9_GitCommandsInOrderEachAfterSuccess ==
    /\ Len(gitCalls) <= Len(GitOrder)
    /\ \A i \in 1..Len(gitCalls) : gitCalls[i].cmd = GitOrder[i]
    /\ Len(gitCalls) >= 2 => Succeeded(gitCalls[1])
    /\ Len(gitCalls) >= 3 =>
          /\ gitCalls[2].out.started
          /\ Strip(gitCalls[2].out.stdout) # <<>>
    /\ Len(gitCalls) >= 4 => Succeeded(gitCalls[3])

C9_Witness ==
    /\ pc = "exit"
    /\ Len(gitCalls) = 4
    /\ \A i \in 1..4 : Succeeded(gitCalls[i])
    /\ pushed = "True"
    /\ exit_status = 0

\* ------------------------------------------------------------------------
\* C10
\* ------------------------------------------------------------------------
\* the file system after attempt i: the one the next attempt found, or the
\* current one if attempt i is the last
FsAfter(i) == IF i < Len(attempts) THEN attempts[i + 1].before ELSE fs

\* C10: an attempt whose GET failed left every destination as it was, and
\* a file written by a successful attempt keeps the downloaded body through
\* later failed GETs and through the publish step, whatever its outcome.
C10_FailedGetLeavesFilesUntouched ==
    /\ \A i \in 1..Len(attempts) :
          GetFailed(attempts[i]) => FsAfter(i) = attempts[i].before
    /\ \A i \in 1..Len(attempts) :
          (/\ attempts[i].ret = "True"
           /\ \A j \in (i + 1)..Len(attempts) :
                 attempts[j].filename = attempts[i].filename
                    => GetFailed(attempts[j]))
          => fs[attempts[i].filename] = Body

C10_Witness ==
    /\ pc = "exit"
    /\ pushed = "False"
    /\ Len(attempts) = 2
    /\ attempts[1].ret = "True"
    /\ attempts[1].before[attempts[1].filename] = "old"
    /\ attempts[2].get = "HTTPError"
    /\ attempts[2].filename = attempts[1].filename
    /\ fs[attempts[1].filename] = Body

====
